---- MODULE Spec2Model ----
(***************************************************************************)
(* Gastro-Galaxy-Back: the HTTP handler layer (package server) and the     *)
(* data access service (package database) of src/internal/server/routes.go *)
(* over a relational store with the tables recipe, ingredient,             *)
(* ingredient_recipe and category.                                         *)
(***************************************************************************)
EXTENDS Integers, Sequences, FiniteSets, TLC

\* ------------------------------------------------------------------ bounds
MaxRecipes == 2        \* rows the recipe table may hold
MaxIngredients == 2    \* rows the ingredient table may hold
NumGoroutines == 2     \* goroutines calling New()
MaxJoinRows == 4       \* rows the ingredient_recipe table may hold
MaxCalls == 2          \* calls of New() per goroutine

\* ------------------------------------------------------------- the store
\* Errors the store hands to database/sql; NoErr is Go's nil error.
NoErr == "nil"
ErrNoRows == "sql: no rows in result set"
ErrForeignKey == "violates foreign key constraint"
ErrConn == "failed to connect"

\* category(id, name): referenced, never written, by this program.
CategoryTable == << "Dessert", "Main" >>

CategoryIds == DOMAIN CategoryTable

ZeroRecipe ==
    [Id |-> 0, Name |-> "", Description |-> "", LongDescription |-> "",
     Url |-> "", CategoryId |-> 0]

\* A Go slice: the nil slice and the empty non-nil slice both have length 0.
NilSlice == [isNil |-> TRUE, elems |-> << >>]

\* append(s, x): the result is never nil.
GoAppend(s, x) == [isNil |-> FALSE, elems |-> Append(s.elems, x)]

\* The empty store. Ids are handed out in sequence, from 1.
EmptyStore ==
    [recipe |-> << >>, ingredient |-> << >>, ingredient_recipe |-> << >>]

Range(s) == {s[i] : i \in DOMAIN s}

RecipeIdsOf(store) == {store.recipe[i].id : i \in DOMAIN store.recipe}

IngredientIdsOf(store) == {store.ingredient[i].id : i \in DOMAIN store.ingredient}

\* INSERT INTO recipe (...) VALUES (...) RETURNING id, one statement.
\* category_id is a foreign key into category.
ExecInsertRecipeRow(store, name, description, longDescription, url, categoryId, down) ==
    IF down THEN [store |-> store, id |-> 0, err |-> ErrConn]
    ELSE IF categoryId \notin CategoryIds
    THEN [store |-> store, id |-> 0, err |-> ErrForeignKey]
    ELSE LET id == Len(store.recipe) + 1
             row == [id |-> id, name |-> name, description |-> description,
                     long_description |-> longDescription, imageurl |-> url,
                     category_id |-> categoryId]
         IN  [store |-> [store EXCEPT !.recipe = Append(@, row)],
              id |-> id, err |-> NoErr]

\* INSERT INTO ingredient_recipe (ingredient_id, recipe_id) VALUES ($1,$2):
\* both foreign keys are checked, there is no uniqueness constraint.
ExecInsertJoinRow(store, ingredientId, recipeId, down) ==
    IF down THEN [store |-> store, err |-> ErrConn]
    ELSE IF ingredientId \notin IngredientIdsOf(store)
            \/ recipeId \notin RecipeIdsOf(store)
    THEN [store |-> store, err |-> ErrForeignKey]
    ELSE [store |-> [store EXCEPT !.ingredient_recipe =
                        Append(@, [ingredient_id |-> ingredientId,
                                   recipe_id |-> recipeId])],
          err |-> NoErr]

\* INSERT INTO ingredient (...) VALUES (...) RETURNING id, one statement.
ExecInsertIngredientRow(store, name, amount, url, isAvailable, down) ==
    IF down THEN [store |-> store, id |-> 0, err |-> ErrConn]
    ELSE LET id == Len(store.ingredient) + 1
             row == [id |-> id, name |-> name, amount |-> amount,
                     imageurl |-> url, isavailable |-> isAvailable]
         IN  [store |-> [store EXCEPT !.ingredient = Append(@, row)],
              id |-> id, err |-> NoErr]

\* Mutant of ScanRecipe: the description and imageurl columns scanned into
\* each other's field.
ScanRecipe_Swapped(row) ==
    [Id |-> row.id, Name |-> row.name, Description |-> row.imageurl,
     LongDescription |-> row.long_description, Url |-> row.description,
     CategoryId |-> row.category_id]

\* rows.Scan(&recipe.Id, &recipe.Name, &recipe.Description,
\*           &recipe.LongDescription, &recipe.Url, &recipe.CategoryId)
ScanRecipe(row) ==
    [Id |-> row.id, Name |-> row.name, Description |-> row.description,
     LongDescription |-> row.long_description, Url |-> row.imageurl,
     CategoryId |-> row.category_id]

\* rows.Scan(&ingredient.Id, &ingredient.Name, &ingredient.Amount,
\*           &ingredient.Url, &ingredient.IsAvailable)
ScanIngredient(row) ==
    [Id |-> row.id, Name |-> row.name, Amount |-> row.amount,
     Url |-> row.imageurl, IsAvailable |-> row.isavailable]

\* for rows.Next() { ...; recipes = append(recipes, recipe) } from a nil slice
RECURSIVE ScanRecipes(_, _)
ScanRecipes(rows, acc) ==
    IF rows = << >> THEN acc
    ELSE ScanRecipes(Tail(rows), GoAppend(acc, ScanRecipe(Head(rows))))

RECURSIVE ScanIngredients(_, _)
ScanIngredients(rows, acc) ==
    IF rows = << >> THEN acc
    ELSE ScanIngredients(Tail(rows), GoAppend(acc, ScanIngredient(Head(rows))))

\* ------------------------------------------------- the data access service
\* Every operation takes `fault`: the position, among the statements the call
\* sends, of the one the store connection fails on (0: the connection holds).
\* `stmts` counts the statements the call sent.

\* The loop of InsertRecipe over ingredientIds.
RECURSIVE InsertRecipeLoop(_, _, _, _)
InsertRecipeLoop(store, id, ingredientIds, fault) ==
    IF ingredientIds = << >> THEN [store |-> store, err |-> NoErr, stmts |-> 0]
    ELSE LET r == ExecInsertJoinRow(store, Head(ingredientIds), id, fault = 1)
         IN  IF r.err # NoErr
             THEN [store |-> r.store, err |-> r.err, stmts |-> 1]
             ELSE LET rest == InsertRecipeLoop(r.store, id, Tail(ingredientIds),
                                               fault - 1)
                  IN  [rest EXCEPT !.stmts = @ + 1]

RECURSIVE InsertRecipeIngredient(_, _, _, _)
InsertRecipeIngredient(store, recipeId, ingredientIds, fault) ==
    IF ingredientIds = << >> THEN [store |-> store, err |-> NoErr, stmts |-> 0]
    ELSE LET r == ExecInsertJoinRow(store, Head(ingredientIds), recipeId, fault = 1)
         IN  IF r.err # NoErr
             THEN [store |-> r.store, err |-> r.err, stmts |-> 1]
             ELSE LET rest == InsertRecipeIngredient(r.store, recipeId,
                                                     Tail(ingredientIds), fault - 1)
                  IN  [rest EXCEPT !.stmts = @ + 1]

\* Mutant of InsertRecipe: -1, not the generated id, returned with the error
\* of a failed join-row insert.
InsertRecipe_LosesId(store, name, description, longDescription, url, categoryId, ingredientIds, fault) ==
    LET r1 == ExecInsertRecipeRow(store, name, description, longDescription, url,
                                  categoryId, fault = 1)
    IN  IF r1.err # NoErr
        THEN [store |-> r1.store, id |-> -1, err |-> r1.err, stmts |-> 1]
        ELSE LET r2 == InsertRecipeLoop(r1.store, r1.id, ingredientIds, fault - 1)
             IN  IF r2.err # NoErr
                 THEN [store |-> r2.store, id |-> -1, err |-> r2.err,
                       stmts |-> 1 + r2.stmts]
                 ELSE LET r3 == InsertRecipeIngredient(r2.store, r1.id, ingredientIds,
                                                       fault - 1 - r2.stmts)
                      IN  [store |-> r3.store,
                           id |-> IF r3.err # NoErr THEN -1 ELSE r1.id,
                           err |-> r3.err, stmts |-> 1 + r2.stmts + r3.stmts]

InsertRecipe(store, name, description, longDescription, url, categoryId, ingredientIds, fault) ==
    LET r1 == ExecInsertRecipeRow(store, name, description, longDescription, url,
                                  categoryId, fault = 1)
    IN  IF r1.err # NoErr
        THEN [store |-> r1.store, id |-> -1, err |-> r1.err, stmts |-> 1]
        ELSE LET r2 == InsertRecipeLoop(r1.store, r1.id, ingredientIds, fault - 1)
             IN  IF r2.err # NoErr
                 THEN [store |-> r2.store, id |-> r1.id, err |-> r2.err,
                       stmts |-> 1 + r2.stmts]
                 ELSE LET r3 == InsertRecipeIngredient(r2.store, r1.id, ingredientIds,
                                                       fault - 1 - r2.stmts)
                      IN  [store |-> r3.store, id |-> r1.id, err |-> r3.err,
                           stmts |-> 1 + r2.stmts + r3.stmts]

GetRecipes(store, category, fault) ==
    IF fault = 1 THEN [recipes |-> NilSlice, err |-> ErrConn, stmts |-> 1]
    ELSE LET Matches(row) == category = "" \/ CategoryTable[row.category_id] = category
         IN  [recipes |-> ScanRecipes(SelectSeq(store.recipe, Matches), NilSlice),
              err |-> NoErr, stmts |-> 1]

\* Mutant of GetRecipeWithIngredients: no row is no error, the zero-valued
\* recipe is returned with the ingredients the second query finds.
GetRecipeWithIngredients_ZeroRecord(store, recipeId, fault) ==
    LET NilResult(e, n) ==
            [isNil |-> TRUE, Recipe |-> ZeroRecipe, Ingredients |-> NilSlice,
             err |-> e, stmts |-> n]
        IsRecipe(row) == row.id = recipeId
        found == SelectSeq(store.recipe, IsRecipe)
        OfRecipe(ir) == ir.recipe_id = recipeId
        joined == SelectSeq(store.ingredient_recipe, OfRecipe)
        rows == [k \in DOMAIN joined |->
                    CHOOSE i \in Range(store.ingredient) : i.id = joined[k].ingredient_id]
    IN  IF fault = 1 THEN NilResult(ErrConn, 1)
        ELSE IF fault = 2 THEN NilResult(ErrConn, 2)
        ELSE [isNil |-> FALSE,
              Recipe |-> IF found = << >> THEN ZeroRecipe ELSE ScanRecipe(found[1]),
              Ingredients |-> ScanIngredients(rows, NilSlice),
              err |-> NoErr, stmts |-> 2]

GetRecipeWithIngredients(store, recipeId, fault) ==
    LET NilResult(e, n) ==
            [isNil |-> TRUE, Recipe |-> ZeroRecipe, Ingredients |-> NilSlice,
             err |-> e, stmts |-> n]
        IsRecipe(row) == row.id = recipeId
        found == SelectSeq(store.recipe, IsRecipe)
        OfRecipe(ir) == ir.recipe_id = recipeId
        joined == SelectSeq(store.ingredient_recipe, OfRecipe)
        rows == [k \in DOMAIN joined |->
                    CHOOSE i \in Range(store.ingredient) : i.id = joined[k].ingredient_id]
    IN  IF fault = 1 THEN NilResult(ErrConn, 1)
        ELSE IF found = << >> THEN NilResult(ErrNoRows, 1)
        ELSE IF fault = 2 THEN NilResult(ErrConn, 2)
        ELSE [isNil |-> FALSE, Recipe |-> ScanRecipe(found[1]),
              Ingredients |-> ScanIngredients(rows, NilSlice),
              err |-> NoErr, stmts |-> 2]

InsertIngredient(store, name, amount, url, isAvailable, fault) ==
    LET r == ExecInsertIngredientRow(store, name, amount, url, isAvailable, fault = 1)
    IN  IF r.err # NoErr
        THEN [store |-> r.store, id |-> -1, err |-> r.err, stmts |-> 1]
        ELSE [store |-> r.store, id |-> r.id, err |-> NoErr, stmts |-> 1]
\* ------------------------------------------------------- request contents
\* A JSON value of a request body: t is its JSON type, the other fields hold
\* the value of that type.
JAbsent == [t |-> "absent", s |-> "", n |-> 0, b |-> FALSE, a |-> << >>]
JNull == [t |-> "null", s |-> "", n |-> 0, b |-> FALSE, a |-> << >>]
JStr(x) == [t |-> "str", s |-> x, n |-> 0, b |-> FALSE, a |-> << >>]
JNum(x) == [t |-> "num", s |-> "", n |-> x, b |-> FALSE, a |-> << >>]
JBool(x) == [t |-> "bool", s |-> "", n |-> 0, b |-> x, a |-> << >>]
JArr(x) == [t |-> "arr", s |-> "", n |-> 0, b |-> FALSE, a |-> x]

\* A request body: one whose read fails, no bytes, bytes that are not JSON, or
\* a JSON text.
UnreadableBody == [syntax |-> "unreadable", fields |-> << >>]
EmptyBody == [syntax |-> "empty", fields |-> << >>]
InvalidBody == [syntax |-> "invalid", fields |-> << >>]
NullBody == [syntax |-> "null", fields |-> << >>]
ArrayBody == [syntax |-> "array", fields |-> << >>]
ObjectBody(fields) == [syntax |-> "object", fields |-> fields]

\* The member k of a JSON object, JAbsent when the object has no such key.
Member(body, k) ==
    IF body.syntax = "object" /\ k \in DOMAIN body.fields THEN body.fields[k]
    ELSE JAbsent

ErrSyntax == "invalid character"
ErrUnmarshalType == "json: cannot unmarshal"
ErrEOF == "EOF"
ErrRead == "unexpected EOF"
ErrAtoi == "strconv.Atoi: invalid syntax"

\* encoding/json into a struct: a member of the wrong JSON type leaves the
\* field at its zero value and is reported, the other members are still set;
\* null and absent members leave the field alone.
FieldErr(v, t) == v.t \notin {t, "null", "absent"}

DecodeErr(body, types) ==
    CASE body.syntax = "unreadable" -> ErrRead
      [] body.syntax = "empty" -> ErrEOF
      [] body.syntax = "invalid" -> ErrSyntax
      [] body.syntax = "array" -> ErrUnmarshalType
      [] body.syntax = "null" -> NoErr
      [] OTHER ->
            IF \E k \in DOMAIN types : FieldErr(Member(body, k), types[k])
            THEN ErrUnmarshalType ELSE NoErr

StrField(body, k) == IF Member(body, k).t = "str" THEN Member(body, k).s ELSE ""
IntField(body, k) == IF Member(body, k).t = "num" THEN Member(body, k).n ELSE 0
BoolField(body, k) == IF Member(body, k).t = "bool" THEN Member(body, k).b ELSE FALSE
IntsField(body, k) == IF Member(body, k).t = "arr" THEN Member(body, k).a ELSE << >>

\* json.NewDecoder(r.Body).Decode(&recipeDto), recipeDto a models.RecipeInputDto.
\* The member names are those the POST /recipe endpoint accepts.
DecodeRecipeInputDto(body) ==
    [dto |-> [Name |-> StrField(body, "name"), Url |-> StrField(body, "url"),
              CategoryId |-> IntField(body, "categoryId"),
              Description |-> StrField(body, "description"),
              LongDescription |-> StrField(body, "longDescription"),
              IngedientIds |-> IntsField(body, "ingredientIds")],
     err |-> DecodeErr(body, [name |-> "str", url |-> "str", categoryId |-> "num",
                              description |-> "str", longDescription |-> "str",
                              ingredientIds |-> "arr"])]

\* json.NewDecoder(r.Body).Decode(&ingredient), ingredient a models.Ingedient.
\* The member names are those the POST /ingredient endpoint accepts.
DecodeIngedient(body) ==
    [dto |-> [Name |-> StrField(body, "name"), Amount |-> StrField(body, "amount"),
              Url |-> StrField(body, "url"),
              IsAvailable |-> BoolField(body, "isAvailable")],
     err |-> DecodeErr(body, [name |-> "str", amount |-> "str", url |-> "str",
                              isAvailable |-> "bool"])]

\* json.Unmarshal(body, &data), data a map[string]interface{}: a JSON null
\* leaves the map nil and is no error, a JSON array is a type error.
UnmarshalMap(body) ==
    CASE body.syntax = "invalid" -> [err |-> ErrSyntax, data |-> << >>]
      [] body.syntax = "array" -> [err |-> ErrUnmarshalType, data |-> << >>]
      [] body.syntax = "null" -> [err |-> NoErr, data |-> << >>]
      [] OTHER -> [err |-> NoErr, data |-> body.fields]

\* Mutant of AssertString: the two-value form, "" when the value is no string.
AssertString_CommaOk(data, k) ==
    LET v == IF k \in DOMAIN data THEN data[k] ELSE JAbsent
    IN  [panic |-> FALSE, s |-> IF v.t = "str" THEN v.s ELSE ""]

\* data["category"].(string): the one-value type assertion panics unless the
\* value is a string; a missing key reads as the nil interface.
AssertString(data, k) ==
    LET v == IF k \in DOMAIN data THEN data[k] ELSE JAbsent
    IN  IF v.t = "str" THEN [panic |-> FALSE, s |-> v.s]
        ELSE [panic |-> TRUE, s |-> ""]

\* strconv.Atoi on a path segment, a sequence of characters: an optional sign
\* and then one or more decimal digits.
Digits == << "0", "1", "2", "3", "4", "5", "6", "7", "8", "9" >>

IsDigit(c) == \E d \in DOMAIN Digits : Digits[d] = c

DigitValue(c) == (CHOOSE d \in DOMAIN Digits : Digits[d] = c) - 1

RECURSIVE ParseDigits(_, _)
ParseDigits(cs, acc) ==
    IF cs = << >> THEN acc
    ELSE ParseDigits(Tail(cs), acc * Len(Digits) + DigitValue(Head(cs)))

Atoi(seg) ==
    LET signed == seg # << >> /\ Head(seg) \in {"+", "-"}
        digits == IF signed THEN Tail(seg) ELSE seg
    IN  IF digits = << >> \/ \E i \in DOMAIN digits : ~IsDigit(digits[i])
        THEN [n |-> 0, err |-> ErrAtoi]
        ELSE [n |-> IF signed /\ Head(seg) = "-" THEN 0 - ParseDigits(digits, 0)
                    ELSE ParseDigits(digits, 0),
              err |-> NoErr]
\* ------------------------------------------------------ http.ResponseWriter
\* status 0: no header written yet. The first WriteHeader decides the status;
\* a later one is ignored (net/http logs it as superfluous).
NewResponse == [status |-> 0, body |-> << >>, superfluous |-> 0]

\* Mutant of WriteHeader: the last call decides the status.
WriteHeader_LastWins(w, code) ==
    IF w.status # 0 THEN [w EXCEPT !.status = code, !.superfluous = @ + 1]
    ELSE [w EXCEPT !.status = code]

WriteHeader(w, code) ==
    IF w.status # 0 THEN [w EXCEPT !.superfluous = @ + 1]
    ELSE [w EXCEPT !.status = code]

StatusOK == 200
StatusCreated == 201
StatusBadRequest == 400
StatusInternalServerError == 500

\* w.Write: writes the header with 200 first when none was written.
Write(w, chunk) ==
    LET w1 == IF w.status = 0 THEN WriteHeader(w, StatusOK) ELSE w
    IN  [w1 EXCEPT !.body = Append(@, chunk)]

Text(msg, n) == [kind |-> "text", text |-> msg, n |-> n]

\* http.Error(w, err.Error(), code): the header, then the message as text.
HttpError(w, msg, code) == Write(WriteHeader(w, code), Text(msg, 0))

\* json.NewEncoder(w).Encode(recipes), recipes a []models.Recipe: the nil
\* slice encodes as null, any other slice as an array.
EncodeSlice(slice) ==
    IF slice.isNil THEN [t |-> "null", elems |-> << >>]
    ELSE [t |-> "array", elems |-> slice.elems]

\* json.NewEncoder(w).Encode(recipe), recipe a *models.RecipeWithIngredientsDto
EncodeRecipeWithIngredients(dto) ==
    [t |-> "object", Recipe |-> dto.Recipe,
     Ingredients |-> EncodeSlice(dto.Ingredients)]

Json(v) == [kind |-> "json", json |-> v]

\* ---------------------------------------------------------- the handlers
\* A handler maps the store and the request to the response written, the
\* store afterwards, the one service call it made (op "none": no call) and
\* the trace of what it did, in order.
NoCall == [op |-> "none"]

\* Whether the store connection failed on a statement the call sent.
Faulted(fault, ret) == fault >= 1 /\ fault <= ret.stmts


insertRecipeHandler(store, body, fault) ==
    LET dec == DecodeRecipeInputDto(body)
        w1 == IF dec.err # NoErr THEN HttpError(NewResponse, dec.err, StatusBadRequest)
              ELSE NewResponse
        t1 == IF dec.err # NoErr THEN << "Error" >> ELSE << >>
        recipe == [Name |-> dec.dto.Name, Url |-> dec.dto.Url,
                   CategoryId |-> dec.dto.CategoryId,
                   Description |-> dec.dto.Description,
                   LongDescription |-> dec.dto.LongDescription]
        ret == InsertRecipe(store, recipe.Name, recipe.Description,
                            recipe.LongDescription, recipe.Url, recipe.CategoryId,
                            dec.dto.IngedientIds, fault)
        w2 == IF ret.err # NoErr THEN HttpError(w1, ret.err, StatusInternalServerError)
              ELSE w1
        t2 == t1 \o << "Call" >> \o (IF ret.err # NoErr THEN << "Error" >> ELSE << >>)
        w3 == WriteHeader(w2, StatusCreated)
        w4 == Write(w3, Text("Recipe id: %d", ret.id))
    IN  [w |-> w4, store |-> ret.store, panicked |-> FALSE,
         trace |-> t2 \o << "WriteHeader", "Write" >>,
         call |-> [op |-> "InsertRecipe",
                   args |-> [name |-> recipe.Name, description |-> recipe.Description,
                             longDescription |-> recipe.LongDescription,
                             url |-> recipe.Url, categoryId |-> recipe.CategoryId,
                             ingredientIds |-> dec.dto.IngedientIds],
                   id |-> ret.id, err |-> ret.err, stmts |-> ret.stmts,
                   faulted |-> Faulted(fault, ret)]]

insertIngredientHandler(store, body, fault) ==
    LET dec == DecodeIngedient(body)
        ingredient == dec.dto
        w1 == IF dec.err # NoErr THEN HttpError(NewResponse, dec.err, StatusBadRequest)
              ELSE NewResponse
        t1 == IF dec.err # NoErr THEN << "Error" >> ELSE << >>
        ret == InsertIngredient(store, ingredient.Name, ingredient.Amount,
                                ingredient.Url, ingredient.IsAvailable, fault)
        w2 == IF ret.err # NoErr THEN HttpError(w1, ret.err, StatusInternalServerError)
              ELSE w1
        t2 == t1 \o << "Call" >> \o (IF ret.err # NoErr THEN << "Error" >> ELSE << >>)
        w3 == WriteHeader(w2, StatusCreated)
        w4 == Write(w3, Text("Ingredient id: %d", ret.id))
    IN  [w |-> w4, store |-> ret.store, panicked |-> FALSE,
         trace |-> t2 \o << "WriteHeader", "Write" >>,
         call |-> [op |-> "InsertIngredient", args |-> ingredient,
                   id |-> ret.id, err |-> ret.err, stmts |-> ret.stmts,
                   faulted |-> Faulted(fault, ret)]]

\* io.ReadAll(r.Body) fails on a body that cannot be read; len(body) > 0 unless
\* the request carries no bytes.
getRecipesHandler(store, body, fault) ==
    LET um == UnmarshalMap(body)
        as == AssertString(um.data, "category")
        category == IF body.syntax = "empty" THEN "" ELSE as.s
        ret == GetRecipes(store, category, fault)
        Done(w, trace, call, panicked) ==
            [w |-> w, store |-> store, panicked |-> panicked, trace |-> trace,
             call |-> call]
        theCall == [op |-> "GetRecipes", category |-> category,
                    recipes |-> ret.recipes, err |-> ret.err, stmts |-> ret.stmts,
                    faulted |-> Faulted(fault, ret)]
    IN  IF body.syntax = "unreadable"
        THEN Done(HttpError(NewResponse, ErrRead, StatusBadRequest), << "Error" >>,
                  NoCall, FALSE)
        ELSE IF body.syntax # "empty" /\ um.err # NoErr
        THEN Done(HttpError(NewResponse, um.err, StatusBadRequest), << "Error" >>,
                  NoCall, FALSE)
        ELSE IF body.syntax # "empty" /\ as.panic
        THEN Done(NewResponse, << "Panic" >>, NoCall, TRUE)
        ELSE IF ret.err # NoErr
        THEN Done(HttpError(NewResponse, ret.err, StatusBadRequest),
                  << "Call", "Error" >>, theCall, FALSE)
        ELSE Done(Write(WriteHeader(NewResponse, StatusOK),
                        Json(EncodeSlice(ret.recipes))),
                  << "Call", "WriteHeader", "Write" >>, theCall, FALSE)

\* Mutant of getRecipeWithIngredients: no return after the error response to
\* a segment that is no integer.
getRecipeWithIngredients_NoReturn(store, seg, fault) ==
    LET conv == Atoi(seg)
        recipeId == conv.n
        w1 == IF conv.err # NoErr
              THEN HttpError(NewResponse, conv.err, StatusBadRequest) ELSE NewResponse
        t1 == IF conv.err # NoErr THEN << "Error" >> ELSE << >>
        ret == GetRecipeWithIngredients(store, recipeId, fault)
        Done(w, trace, call) ==
            [w |-> w, store |-> store, panicked |-> FALSE, trace |-> trace,
             call |-> call]
        theCall == [op |-> "GetRecipeWithIngredients", recipeId |-> recipeId,
                    isNil |-> ret.isNil, Recipe |-> ret.Recipe,
                    Ingredients |-> ret.Ingredients, err |-> ret.err,
                    stmts |-> ret.stmts, faulted |-> Faulted(fault, ret)]
    IN  IF ret.err # NoErr
        THEN Done(HttpError(w1, ret.err, StatusBadRequest),
                  t1 \o << "Call", "Error" >>, theCall)
        ELSE Done(Write(WriteHeader(w1, StatusOK),
                        Json(EncodeRecipeWithIngredients(ret))),
                  t1 \o << "Call", "WriteHeader", "Write" >>, theCall)

\* Server.getRecipeWithIngredients, seg the {recipeId} segment of the path.
getRecipeWithIngredients(store, seg, fault) ==
    LET conv == Atoi(seg)
        recipeId == conv.n
        ret == GetRecipeWithIngredients(store, recipeId, fault)
        Done(w, trace, call) ==
            [w |-> w, store |-> store, panicked |-> FALSE, trace |-> trace,
             call |-> call]
        theCall == [op |-> "GetRecipeWithIngredients", recipeId |-> recipeId,
                    isNil |-> ret.isNil, Recipe |-> ret.Recipe,
                    Ingredients |-> ret.Ingredients, err |-> ret.err,
                    stmts |-> ret.stmts, faulted |-> Faulted(fault, ret)]
    IN  IF conv.err # NoErr
        THEN Done(HttpError(NewResponse, conv.err, StatusBadRequest), << "Error" >>,
                  NoCall)
        ELSE IF ret.err # NoErr
        THEN Done(HttpError(NewResponse, ret.err, StatusBadRequest),
                  << "Call", "Error" >>, theCall)
        ELSE Done(Write(WriteHeader(NewResponse, StatusOK),
                        Json(EncodeRecipeWithIngredients(ret))),
                  << "Call", "WriteHeader", "Write" >>, theCall)
\* ----------------------------------------------------------------- state
VARIABLES
    store,       \* the relational store
    req,         \* the request served last
    w,           \* the response written for it
    trace,       \* what its handler did, in order
    call,        \* the service call its handler made
    panicked,    \* whether its handler ended in a run-time panic
    dbInstance,  \* the package variable of database: 0 is nil
    opens,       \* how many times sql.Open ran
    pc,          \* where each goroutine stands in New()
    db,          \* each goroutine's local db
    returned,    \* the instances New() has returned so far
    calls,       \* how many calls of New() each goroutine began
    alive        \* FALSE once log.Fatal ended the process

httpVars == << store, req, w, trace, call, panicked >>

newVars == << dbInstance, opens, pc, db, returned, calls, alive >>

vars == << store, req, w, trace, call, panicked, dbInstance, opens, pc, db,
           returned, calls, alive >>

Goroutines == 1..NumGoroutines

NoRequest == [route |-> "none", body |-> EmptyBody, seg |-> << >>]

Init ==
    /\ store = EmptyStore
    /\ req = NoRequest
    /\ w = NewResponse
    /\ trace = << >>
    /\ call = NoCall
    /\ panicked = FALSE
    /\ dbInstance = 0
    /\ opens = 0
    /\ pc = [g \in Goroutines |-> "idle"]
    /\ db = [g \in Goroutines |-> 0]
    /\ returned = {}
    /\ calls = [g \in Goroutines |-> 0]
    /\ alive = TRUE

\* ------------------------------------------------------- request inputs
IdLists == {<< >>, << 1 >>, << 2 >>, << 1, 2 >>, << 2, 1 >>, << 1, 1 >>}

RecipeBody(name, categoryId, ids) ==
    ObjectBody([name |-> name, url |-> JStr("pie.png"), categoryId |-> JNum(categoryId),
                description |-> JStr("Sweet"), longDescription |-> JStr("Bake it"),
                ingredientIds |-> JArr(ids)])

RecipeBodies ==
    {InvalidBody, RecipeBody(JStr("Pie"), Len(CategoryTable) + 1, << 1 >>)}
        \cup {RecipeBody(JStr("Pie"), 1, ids) : ids \in IdLists}

IngredientBodies ==
    {InvalidBody,
     ObjectBody([name |-> JStr("Salt"), amount |-> JStr("1 tsp"), url |-> JStr(""),
                 isAvailable |-> JBool(TRUE)])}

GetRecipesBodies ==
    {UnreadableBody, EmptyBody, InvalidBody, NullBody, ArrayBody,
     ObjectBody([category |-> JNum(1)]),
     ObjectBody([name |-> JStr("Pie")])}
        \cup {ObjectBody([category |-> JStr(c)]) : c \in {"Dessert", "Main"}}

PathSegments ==
    {<< Digits[i + 1] >> : i \in 1..(MaxRecipes + 1)}
        \cup {<< "a" >>, << "1", "a" >>, << "-", "1" >>, << "+", "1" >>}

\* ------------------------------------------------------------ the routes
Serve(request, h) ==
    /\ req' = request
    /\ store' = h.store
    /\ w' = h.w
    /\ trace' = h.trace
    /\ call' = h.call
    /\ panicked' = h.panicked
    /\ UNCHANGED newVars

\* r.Post("/recipe", s.insertRecipeHandler)
PostRecipe ==
    \E body \in RecipeBodies :
        LET ids == DecodeRecipeInputDto(body).dto.IngedientIds
        IN  \E fault \in 0..(2 * Len(ids) + 1) :
                /\ alive
                /\ Len(store.recipe) < MaxRecipes
                /\ Len(store.ingredient_recipe) + 2 * Len(ids) <= MaxJoinRows
                /\ Serve([route |-> "POST /recipe", body |-> body, seg |-> << >>],
                         insertRecipeHandler(store, body, fault))

\* r.Post("/ingredient", s.insertIngredientHandler)
PostIngredient ==
    \E body \in IngredientBodies, fault \in 0..1 :
        /\ alive
        /\ Len(store.ingredient) < MaxIngredients
        /\ Serve([route |-> "POST /ingredient", body |-> body, seg |-> << >>],
                 insertIngredientHandler(store, body, fault))

\* r.Get("/recipes", s.getRecipesHandler)
GetRecipesRoute ==
    \E body \in GetRecipesBodies, fault \in 0..1 :
        /\ alive
        /\ Serve([route |-> "GET /recipes", body |-> body, seg |-> << >>],
                 getRecipesHandler(store, body, fault))

\* r.Get("/recipe/{recipeId}", s.getRecipeWithIngredients)
GetRecipeRoute ==
    \E seg \in PathSegments, fault \in 0..2 :
        /\ alive
        /\ Serve([route |-> "GET /recipe", body |-> EmptyBody, seg |-> seg],
                 getRecipeWithIngredients(store, seg, fault))

Next == PostRecipe \/ PostIngredient \/ GetRecipesRoute \/ GetRecipeRoute

Spec == Init /\ [][Next]_vars

\* ------------------------------------------------------------------ New()
\* if dbInstance != nil
NewCheck(g) ==
    /\ alive
    /\ pc[g] = "idle"
    /\ calls[g] < MaxCalls
    /\ calls' = [calls EXCEPT ![g] = @ + 1]
    /\ pc' = [pc EXCEPT ![g] = IF dbInstance # 0 THEN "return" ELSE "open"]
    /\ UNCHANGED << dbInstance, opens, db, returned, alive >>
    /\ UNCHANGED httpVars

\* db, err := sql.Open("pgx", connStr); log.Fatal(err) ends the process
NewOpen(g) ==
    \E ok \in BOOLEAN :
        /\ alive
        /\ pc[g] = "open"
        /\ opens' = opens + 1
        /\ IF ok
           THEN /\ db' = [db EXCEPT ![g] = opens + 1]
                /\ pc' = [pc EXCEPT ![g] = "assign"]
                /\ alive' = alive
           ELSE /\ alive' = FALSE
                /\ UNCHANGED << db, pc >>
        /\ UNCHANGED << dbInstance, returned, calls >>
        /\ UNCHANGED httpVars

\* dbInstance = &service{db: db}
NewAssign(g) ==
    /\ alive
    /\ pc[g] = "assign"
    /\ dbInstance' = db[g]
    /\ pc' = [pc EXCEPT ![g] = "return"]
    /\ UNCHANGED << opens, db, returned, calls, alive >>
    /\ UNCHANGED httpVars

\* return dbInstance
NewReturn(g) ==
    /\ alive
    /\ pc[g] = "return"
    /\ returned' = returned \cup {dbInstance}
    /\ pc' = [pc EXCEPT ![g] = "idle"]
    /\ UNCHANGED << dbInstance, opens, db, calls, alive >>
    /\ UNCHANGED httpVars

NextNew == \E g \in Goroutines : NewCheck(g) \/ NewOpen(g) \/ NewAssign(g) \/ NewReturn(g)

SpecNew == Init /\ [][NextNew]_vars
\* ----------------------------------------------------------- properties
JoinRowsOf(st, recipeId) ==
    LET OfRecipe(ir) == ir.recipe_id = recipeId
    IN  SelectSeq(st.ingredient_recipe, OfRecipe)

IdsOf(slice) == {slice.elems[i].Id : i \in DOMAIN slice.elems}

IsPrefix(p, q) == Len(p) <= Len(q) /\ \A i \in DOMAIN p : p[i] = q[i]

\* The text of a decimal integer: an optional sign, then digits only.
IsIntegerText(seg) ==
    LET body == IF seg # << >> /\ seg[1] \in {"+", "-"} THEN Tail(seg) ELSE seg
    IN  body # << >> /\ \A i \in DOMAIN body : body[i] \in Range(Digits)

OnlyErrorText(resp, code, msg) ==
    /\ resp.status = code
    /\ Len(resp.body) = 1
    /\ resp.body[1].kind = "text"
    /\ resp.body[1].text = msg

\* The last request was POST /recipe with an existing category and existing
\* ingredient ids, and the store connection held throughout the call.
ValidInsertRecipe ==
    /\ call.op = "InsertRecipe"
    /\ ~call.faulted
    /\ call.args.categoryId \in CategoryIds
    /\ Range(call.args.ingredientIds) \subseteq IngredientIdsOf(store)

\* C1: an InsertRecipe with an existing category and existing ingredient ids
\* (the empty list included) returns a positive id, and GetRecipeWithIngredients
\* of that id returns the same name, description, image URL and category id and
\* ingredients whose set of ids is the set of ids given.
C1_RoundTrip ==
    ValidInsertRecipe =>
        /\ call.err = NoErr
        /\ call.id > 0
        /\ LET got == GetRecipeWithIngredients(store, call.id, 0)
           IN  /\ got.err = NoErr
               /\ ~got.isNil
               /\ got.Recipe.Name = call.args.name
               /\ got.Recipe.Description = call.args.description
               /\ got.Recipe.Url = call.args.url
               /\ got.Recipe.CategoryId = call.args.categoryId
               /\ IdsOf(got.Ingredients) = Range(call.args.ingredientIds)

C1_Witness ==
    /\ ValidInsertRecipe
    /\ Cardinality(Range(call.args.ingredientIds)) = 2
    /\ call.id = 2

\* C2: a successful InsertRecipe leaves exactly one join row per element of
\* ingredientIds for the new recipe, and GetRecipeWithIngredients returns one
\* ingredient per element.
C2_OneJoinRowPerElement ==
    (call.op = "InsertRecipe" /\ call.err = NoErr) =>
        /\ Len(JoinRowsOf(store, call.id)) = Len(call.args.ingredientIds)
        /\ Len(GetRecipeWithIngredients(store, call.id, 0).Ingredients.elems)
             = Len(call.args.ingredientIds)

\* The last request was GET /recipes with a category no recipe of the store
\* belongs to, and the store connection held.
NoRecipeOfCategory ==
    /\ req.route = "GET /recipes"
    /\ Member(req.body, "category").t = "str"
    /\ Member(req.body, "category").s # ""
    /\ call.op = "GetRecipes"
    /\ ~call.faulted
    /\ \A i \in DOMAIN store.recipe :
           CategoryTable[store.recipe[i].category_id] # Member(req.body, "category").s

\* C3: GetRecipes of a category without recipes returns an empty list and no
\* error, and GET /recipes answers 200 with the empty JSON array as its body.
C3_EmptyCategoryIsEmptyArray ==
    NoRecipeOfCategory =>
        /\ call.err = NoErr
        /\ Len(call.recipes.elems) = 0
        /\ w.status = StatusOK
        /\ Len(w.body) = 1
        /\ w.body[1].kind = "json"
        /\ w.body[1].json.t = "array"
        /\ w.body[1].json.elems = << >>

\* The last request was GET /recipe/{id} with an integer id that matches no
\* recipe row, and the store connection held.
MissingRecipe ==
    /\ call.op = "GetRecipeWithIngredients"
    /\ ~call.faulted
    /\ call.recipeId \notin RecipeIdsOf(store)

\* C4: GetRecipeWithIngredients of an id that matches no recipe row returns the
\* store's no-rows error and a nil result, sends no ingredient query, and
\* GET /recipe/{id} answers 400 with the error message.
C4_NotFound ==
    MissingRecipe =>
        /\ call.err = ErrNoRows
        /\ call.isNil
        /\ call.stmts = 1
        /\ OnlyErrorText(w, StatusBadRequest, ErrNoRows)

C4_Witness ==
    /\ MissingRecipe
    /\ store.recipe # << >>
    /\ store.ingredient_recipe # << >>

\* C5: GET /recipe/{recipeId} with a segment that is no integer answers 400
\* with an error message and makes no service call.
C5_NonIntegerRejected ==
    (req.route = "GET /recipe" /\ ~IsIntegerText(req.seg)) =>
        /\ OnlyErrorText(w, StatusBadRequest, ErrAtoi)
        /\ call.op = "none"
        /\ "Call" \notin Range(trace)

C5_Witness ==
    /\ req.route = "GET /recipe"
    /\ ~IsIntegerText(req.seg)
    /\ Len(req.seg) = 2
    /\ store.recipe # << >>

\* The decode error of the last POST request.
PostDecodeErr ==
    IF req.route = "POST /recipe" THEN DecodeRecipeInputDto(req.body).err
    ELSE DecodeIngedient(req.body).err

\* C6: POST /recipe and POST /ingredient answer 400 when the body is malformed
\* JSON, 500 when the body decodes and the insert fails, and 201 only when the
\* body decodes and the insert succeeds.
C6_PostStatus ==
    req.route \in {"POST /recipe", "POST /ingredient"} =>
        /\ req.body.syntax = "invalid" => w.status = StatusBadRequest
        /\ (PostDecodeErr = NoErr /\ call.err # NoErr)
              => w.status = StatusInternalServerError
        /\ w.status = StatusCreated => (PostDecodeErr = NoErr /\ call.err = NoErr)

C6_Witness ==
    /\ req.route = "POST /ingredient"
    /\ req.body.syntax = "invalid"
    /\ w.status = StatusBadRequest
    /\ w.superfluous > 0

\* The last request was POST /recipe, its recipe row was inserted and a later
\* insert into ingredient_recipe failed.
JoinInsertFailed ==
    /\ call.op = "InsertRecipe"
    /\ call.err # NoErr
    /\ call.stmts > 1

\* C7: when a join-row insert fails after the recipe row was inserted,
\* InsertRecipe returns the store's error and the generated id, sends no
\* statement again, and the recipe row and the join rows inserted before the
\* failure stay: they are the first stmts - 2 elements of ingredientIds taken
\* twice, so their ingredient ids are among the requested ones.
C7_NoRollback ==
    JoinInsertFailed =>
        LET ids == call.args.ingredientIds
            rows == JoinRowsOf(store, call.id)
            kept == [i \in DOMAIN rows |-> rows[i].ingredient_id]
        IN  /\ call.err = IF call.faulted THEN ErrConn ELSE ErrForeignKey
            /\ call.id > 0
            /\ call.id \in RecipeIdsOf(store)
            /\ call.stmts <= 1 + 2 * Len(ids)
            /\ Len(rows) = call.stmts - 2
            /\ IsPrefix(kept, ids \o ids)
            /\ Range(kept) \subseteq Range(ids)

C7_Witness ==
    /\ JoinInsertFailed
    /\ ~call.faulted
    /\ JoinRowsOf(store, call.id) # << >>

\* C8: sql.Open runs at most once and every call of New() returns the same
\* instance, whatever the interleaving of the calling goroutines.
C8_NewOnce == opens <= 1 /\ Cardinality(returned) <= 1

\* C9: GET /recipes with a JSON body whose category is no string, or that has
\* no category key, ends in a panic with no GetRecipes call and nothing
\* written; a body that is not JSON yields 400 with no call; an empty body
\* calls GetRecipes("").
C9_CategoryAssertion ==
    req.route = "GET /recipes" =>
        /\ (req.body.syntax \in {"object", "null"}
               /\ Member(req.body, "category").t # "str")
              => (panicked /\ call.op = "none" /\ w = NewResponse)
        /\ req.body.syntax = "invalid"
              => (~panicked /\ call.op = "none" /\ w.status = StatusBadRequest
                  /\ Len(w.body) = 1 /\ w.body[1].kind = "text")
        /\ req.body.syntax = "empty"
              => (~panicked /\ call.op = "GetRecipes" /\ call.category = "")

C9_Witness ==
    /\ req.route = "GET /recipes"
    /\ req.body.syntax = "object"
    /\ Member(req.body, "category").t = "absent"
    /\ panicked
    /\ store.recipe # << >>

\* C10: a handler that has written an error response does nothing after it:
\* no service call, no further header, no further body.
C10_ErrorEndsRequest ==
    \A i \in DOMAIN trace : trace[i] = "Error" => i = Len(trace)
====
